---- MODULE Spec2Model ----
(***************************************************************************)
(* Model of the bounded windowed retrieval engine of telegram-mcp-ro:      *)
(* list_messages (src/main.py) driving the remote, cursor-paginated        *)
(* message log through client.get_entity / iter_messages / get_messages.   *)
(*                                                                         *)
(* Time is counted in ticks, the smallest time unit (a microsecond in the  *)
(* code); a UTC calendar day is TicksPerDay consecutive ticks.  A date     *)
(* string "2024-MM-DD" is the pair <<MM, DD>>; <<>> stands for an absent   *)
(* (None or empty, both falsy) argument, and for Python's None in general. *)
(***************************************************************************)
EXTENDS Integers, Sequences, FiniteSets, TLC

\* ---------------------------------------------------------------- bounds
MaxLen == 2
MaxLimit == 2
PageSize == 2
MaxSlack == 1
TicksPerDay == 2
MaxSeed == 1
MaxRuns == 2
MaxErrors == 2
MaxCtxId == 4
MaxContext == 2
MaxFailedCalls == 1
MaxHash == 1001
MaxUsers == 2

VARIABLES
    log,            \* the conversation: log[i] is the message with id i
    pc,             \* position of the list_messages coroutine
    limit,          \* argument limit
    search_query,   \* argument search_query ("" when absent)
    from_date,      \* argument from_date (date string, <<>> when absent)
    to_date,        \* argument to_date
    from_date_obj,  \* local from_date_obj (<<>> is None, else <<tick>>)
    to_date_obj,    \* local to_date_obj
    feed,           \* ids the open remote iterator will yield, in order
    pos,            \* how many ids of feed the remote has delivered
    buffer,         \* ids of the fetched page not yet yielded to the loop
    exhausted,      \* the iterator saw a short page: no further fetch
    messages,       \* local list messages (ids, in append order)
    calls,          \* remote requests issued by the current call, in order
    result          \* what the call returned

vars == <<log, pc, limit, search_query, from_date, to_date, from_date_obj,
          to_date_obj, feed, pos, buffer, exhausted, messages, calls, result>>

\* State of get_message_context (src/main.py) and of the conversation it
\* reads.
VARIABLES
    conv,             \* ids of the messages that exist in the conversation
    reply_to,         \* reply_to[i]: id the message i replies to, 0 for none
    overlap,          \* the remote may return the anchor id of a range fetch
    cpc,              \* position of the get_message_context coroutine
    message_id,       \* argument message_id
    context_size,     \* argument context_size
    messages_before,  \* local messages_before (ids)
    central_message,  \* local central_message (list of ids)
    messages_after,   \* local messages_after (ids)
    all_messages,     \* local all_messages (ids, sorted)
    results,          \* entries appended to results, one per window message
    lookup,           \* outcome of the reply lookup being awaited
    ccalls,           \* remote requests issued by the current call
    cresult           \* what the call returned

cvars == <<conv, reply_to, overlap, cpc, message_id, context_size,
           messages_before, central_message, messages_after, all_messages,
           results, lookup, ccalls, cresult>>

\* State of log_and_format_error (src/main.py) across process runs.
VARIABLES
    hashseed,   \* the string-hash seed of the running process
    run,        \* number of the running process
    errlog,     \* records of the diagnostic log (mcp_errors.log, append mode)
    returned    \* the calls of log_and_format_error so far, with their codes

evars == <<hashseed, run, errlog, returned>>

\* The other tools of the surface: the running tool, its position, its
\* arguments, the remote calls it has issued, the string it returned; whether
\* a voicebot package can be imported where the server runs, and the
\* module-level name VoicebotClient of voice.py.
VARIABLES tool, tpc, targs, tcalls, treturn, voice_importable, VoicebotClient

tvars == <<tool, tpc, targs, tcalls, treturn, voice_importable, VoicebotClient>>

\* The pieces of one error code: the identifier, its hash, the code.
VARIABLES function_name, hash_value, error_code

hvars == <<function_name, hash_value, error_code>>

None == <<>>

Min(a, b) == IF a <= b THEN a ELSE b

Max(a, b) == IF a >= b THEN a ELSE b

RECURSIVE Reverse(_)
Reverse(s) == IF s = <<>> THEN <<>> ELSE Append(Reverse(Tail(s)), Head(s))

Take(s, n) == SubSeq(s, 1, Min(Max(n, 0), Len(s)))

\* ------------------------------------------------------------ calendar
\* datetime.strptime(s, "%Y-%m-%d") for the year 2024: month lengths.
DaysInMonth == <<31, 29, 31, 30, 31, 30, 31, 31, 30, 31, 30, 31>>

RECURSIVE DaysBefore(_)
DaysBefore(m) == IF m <= 1 THEN 0 ELSE DaysInMonth[m - 1] + DaysBefore(m - 1)

\* strptime raises ValueError unless month and day name a calendar day.
ValidDate(s) ==
    /\ s[1] \in 1..12
    /\ s[2] \in 1..DaysInMonth[s[1]]

\* Ordinal of the calendar day (1 for 2024-01-01).
DayOrdinal(s) == DaysBefore(s[1]) + s[2]

\* strptime gives midnight of that day; replace(tzinfo=utc) keeps the instant.
ParseDate(s) == DayOrdinal(s) * TicksPerDay

\* Mutant: to_date_obj stays at midnight of the to_date day.
EndOfDayMidnight(t) == t

\* to_date_obj + timedelta(days=1, microseconds=-1): the last tick of the day.
EndOfDay(t) == t + TicksPerDay - 1

\* Mutant: the backward cursor is to_date_obj itself.
BackwardCursorNoNudge(t) == t

\* offset_date passed by the backward scan: to_date_obj + 1 microsecond.
BackwardCursor(t) == t + 1

\* ------------------------------------------------------------ the log
DayStart(d) == d * TicksPerDay

\* Timestamps of the enumerated conversations: every tick of days 3 and 4.
Stamps == DayStart(3)..(DayStart(5) - 1)

Message(i, t, b) == [id |-> i, date |-> t, match |-> b]

\* Message invariant of the remote log: ids ascend with the index and
\* timestamps never decrease with the id.
Ordered(l) == \A i \in 1..Len(l) : \A j \in 1..Len(l) :
                  i <= j => l[i].date <= l[j].date

Logs ==
    UNION { { l \in [1..n -> [id : 1..n, date : Stamps, match : BOOLEAN]] :
                /\ \A i \in 1..n : l[i].id = i
                /\ Ordered(l) } : n \in 0..MaxLen }

\* Conversation of the scenarios: ids 1..10, one per day (day1..day10), the
\* search query matching ids 2, 5 and 9.
ScenarioLog == [i \in 1..10 |-> Message(i, DayStart(i), i \in {2, 5, 9})]

\* A conversation of the same shape in which every message matches the search
\* query.
BusyLog == [i \in 1..10 |-> Message(i, DayStart(i), TRUE)]

\* ------------------------------------------------------------- inputs
Query == "q"

Queries == {"", Query}

DateStrings == {None, <<13, 40>>, <<1, 3>>, <<1, 4>>, <<1, 6>>}

Limits == (0..MaxLimit) \cup {10}

\* ------------------------------------------------- the remote collaborator
\* Requests as the code builds them.
EntityRequest ==
    [op |-> "get_entity", search |-> "", offset_date |-> None,
     reverse |-> FALSE, limit |-> None]

\* client.iter_messages(entity, search=search_query)
SearchRequest(q) ==
    [op |-> "iter_messages", search |-> q, offset_date |-> None,
     reverse |-> FALSE, limit |-> None]

\* client.iter_messages(entity, offset_date=from_date_obj, reverse=True)
ForwardRequest(lo) ==
    [op |-> "iter_messages", search |-> "", offset_date |-> lo,
     reverse |-> TRUE, limit |-> None]

\* client.iter_messages(entity, offset_date=to_date_obj + 1 microsecond)
BackwardRequest(hi) ==
    [op |-> "iter_messages", search |-> "",
     offset_date |-> <<BackwardCursor(hi[1])>>,
     reverse |-> FALSE, limit |-> None]

\* Mutant: limit is not passed on (the library then defaults it to 1).
PlainRequestDefaultLimit(lim) ==
    [op |-> "get_messages", search |-> "", offset_date |-> None,
     reverse |-> FALSE, limit |-> <<1>>]

\* client.get_messages(entity, limit=limit)
PlainRequest(lim) ==
    [op |-> "get_messages", search |-> "", offset_date |-> None,
     reverse |-> FALSE, limit |-> <<lim>>]

Ids(l) == [i \in 1..Len(l) |-> l[i].id]

\* Number of messages of l stamped before instant t.
CountBefore(l, t) == Cardinality({i \in 1..Len(l) : l[i].date < t})

\* The ids the remote yields for an iterator request, in iteration order.
\* Text search is applied by the server; a backward date cursor is exclusive
\* (messages strictly before offset_date); a forward cursor starts at
\* offset_date, and may start up to `slack` messages early.
RemoteFeed(l, req, slack) ==
    IF req.search # ""
    THEN Reverse(Ids(SelectSeq(l, LAMBDA m : m.match)))
    ELSE IF req.reverse
    THEN SubSeq(Ids(l),
                Max(CountBefore(l, req.offset_date[1]) - slack, 0) + 1,
                Len(l))
    ELSE IF req.offset_date # None
    THEN Reverse(SubSeq(Ids(l), 1, CountBefore(l, req.offset_date[1])))
    ELSE Reverse(Ids(l))

\* The messages a get_messages(limit=n) request returns: the newest n.
RemoteGetMessages(l, req) == Take(Reverse(Ids(l)), req.limit[1])

\* ------------------------------------------------ decisions of the code
\* Mutant: the date branches are tested before the search branch.
StrategyDatesFirst(q, lo, hi) ==
    IF lo # None THEN "forward_scan"
    ELSE IF hi # None THEN "backward_scan"
    ELSE IF q # "" THEN "search_scan"
    ELSE "plain_fetch"

\* if search_query: ... else: if from_date_obj or to_date_obj: ... else: ...
Strategy(q, lo, hi) ==
    IF q # "" THEN "search_scan"
    ELSE IF lo # None \/ hi # None
    THEN (IF lo # None THEN "forward_scan" ELSE "backward_scan")
    ELSE "plain_fetch"

\* The request each strategy sends to the remote.
StrategyRequest(st, q, lo, hi, lim) ==
    CASE st = "search_scan" -> SearchRequest(q)
      [] st = "forward_scan" -> ForwardRequest(lo)
      [] st = "backward_scan" -> BackwardRequest(hi)
      [] OTHER -> PlainRequest(lim)

\* Mutant: the upper-bound test of the search loop is missing.
SearchStepNoUpper(d, lo, hi) ==
    IF lo # None /\ d < lo[1] THEN "break" ELSE "append"

\* Mutant: a candidate newer than to_date ends the search loop.
SearchStepBreakUpper(d, lo, hi) ==
    IF hi # None /\ d > hi[1] THEN "break"
    ELSE IF lo # None /\ d < lo[1] THEN "break"
    ELSE "append"

\* Mutant: a candidate older than from_date is skipped, not a reason to stop.
SearchStepNoBreak(d, lo, hi) ==
    IF hi # None /\ d > hi[1] THEN "continue"
    ELSE IF lo # None /\ d < lo[1] THEN "continue"
    ELSE "append"

\* Mutant: the upper-bound test of the search loop uses >=.
SearchStepGeUpper(d, lo, hi) ==
    IF hi # None /\ d >= hi[1] THEN "continue"
    ELSE IF lo # None /\ d < lo[1] THEN "break"
    ELSE "append"

\* Body of the search loop for a candidate stamped d.
SearchStep(d, lo, hi) ==
    IF hi # None /\ d > hi[1] THEN "continue"
    ELSE IF lo # None /\ d < lo[1] THEN "break"
    ELSE "append"

\* Mutant: the lower-bound test of the forward loop uses <=.
ForwardStepLeLower(d, lo, hi) ==
    IF hi # None /\ d > hi[1] THEN "break"
    ELSE IF d <= lo[1] THEN "continue"
    ELSE "append"

\* Body of the forward loop for a candidate stamped d.
ForwardStep(d, lo, hi) ==
    IF hi # None /\ d > hi[1] THEN "break"
    ELSE IF d < lo[1] THEN "continue"
    ELSE "append"

\* Body of the backward loop: no date test.
BackwardStep(d, lo, hi) == "append"

\* Mutant: the limit test is off by one.
LimitReachedLate(n, lim) == n > lim

\* Mutant: the limit test is missing.
LimitReachedNever(n, lim) == FALSE

\* if len(messages) >= limit: break
LimitReached(n, lim) == n >= lim

\* =================================================== log_and_format_error
\* A string is the sequence of its characters.
UpperLetters ==
    <<"A", "B", "C", "D", "E", "F", "G", "H", "I", "J", "K", "L", "M", "N",
      "O", "P", "Q", "R", "S", "T", "U", "V", "W", "X", "Y", "Z">>

LowerLetters ==
    <<"a", "b", "c", "d", "e", "f", "g", "h", "i", "j", "k", "l", "m", "n",
      "o", "p", "q", "r", "s", "t", "u", "v", "w", "x", "y", "z">>

\* str.lower(), character by character.
LowerChar(c) ==
    IF \E i \in 1..Len(UpperLetters) : UpperLetters[i] = c
    THEN LowerLetters[CHOOSE i \in 1..Len(UpperLetters) : UpperLetters[i] = c]
    ELSE c

Lower(s) == [i \in 1..Len(s) |-> LowerChar(s[i])]

\* Python's `pat in s` for strings.
Contains(pat, s) ==
    \E i \in 1..(Len(s) - Len(pat) + 1) : SubSeq(s, i, i + Len(pat) - 1) = pat

\* class ErrorCategory(str, Enum): the members in definition order (name and
\* value are equal).
ErrorCategory ==
    <<"CHAT", "MSG", "CONTACT", "GROUP", "MEDIA", "PROFILE", "AUTH", "ADMIN">>

\* category.name, as characters.
CategoryName ==
    <<<<"C", "H", "A", "T">>,
      <<"M", "S", "G">>,
      <<"C", "O", "N", "T", "A", "C", "T">>,
      <<"G", "R", "O", "U", "P">>,
      <<"M", "E", "D", "I", "A">>,
      <<"P", "R", "O", "F", "I", "L", "E">>,
      <<"A", "U", "T", "H">>,
      <<"A", "D", "M", "I", "N">>>>

\* Operation identifiers passed as function_name.
GetChats ==
    <<"g", "e", "t", "_", "c", "h", "a", "t", "s">>

ListMessagesName ==
    <<"l", "i", "s", "t", "_", "m", "e", "s", "s", "a", "g", "e", "s">>

GetDirectChatByContact ==
    <<"g", "e", "t", "_", "d", "i", "r", "e", "c", "t", "_", "c", "h", "a", "t",
      "_", "b", "y", "_", "c", "o", "n", "t", "a", "c", "t">>

GetContactIds ==
    <<"g", "e", "t", "_", "c", "o", "n", "t", "a", "c", "t", "_", "i", "d", "s">>

GetAdmins ==
    <<"g", "e", "t", "_", "a", "d", "m", "i", "n", "s">>

GetMediaInfo ==
    <<"g", "e", "t", "_", "m", "e", "d", "i", "a", "_", "i", "n", "f", "o">>

MixedCaseGetChat ==
    <<"G", "e", "t", "_", "C", "h", "a", "t">>

GetMessageContextName ==
    <<"g", "e", "t", "_", "m", "e", "s", "s", "a", "g", "e", "_",
      "c", "o", "n", "t", "e", "x", "t">>

GetChat ==
    <<"g", "e", "t", "_", "c", "h", "a", "t">>

InviteToGroup ==
    <<"i", "n", "v", "i", "t", "e", "_", "t", "o", "_", "g", "r",
      "o", "u", "p">>

GetPrivacySettings ==
    <<"g", "e", "t", "_", "p", "r", "i", "v", "a", "c", "y", "_",
      "s", "e", "t", "t", "i", "n", "g", "s">>

GetInviteLink ==
    <<"g", "e", "t", "_", "i", "n", "v", "i", "t", "e", "_", "l",
      "i", "n", "k">>

MessagesToVoicebot ==
    <<"m", "e", "s", "s", "a", "g", "e", "s", "_", "t", "o", "_",
      "v", "o", "i", "c", "e", "b", "o", "t">>

\* The tools modelled besides list_messages and get_message_context.
ToolNames ==
    {GetChat, InviteToGroup, GetPrivacySettings, GetAdmins, GetInviteLink,
     MessagesToVoicebot}

FunctionNames ==
    {GetChats,
     ListMessagesName,
     GetDirectChatByContact,
     GetContactIds,
     GetAdmins,
     GetMediaInfo,
     MixedCaseGetChat, GetMessageContextName}

\* Values passed as prefix: None, or a member of ErrorCategory.
Prefixes == {None, <<"MSG">>, <<"AUTH">>}

\* Mutant: the loop has no break, the last matching category wins.
RECURSIVE DeriveLastFrom(_, _)
DeriveLastFrom(fn, k) ==
    IF k < 1 THEN None
    ELSE IF Contains(Lower(CategoryName[k]), Lower(fn))
    THEN <<ErrorCategory[k]>>
    ELSE DeriveLastFrom(fn, k - 1)

DerivePrefixLastMatch(fn) == DeriveLastFrom(fn, Len(ErrorCategory))

\* for category in ErrorCategory: if category.name.lower() in
\* function_name.lower(): prefix = category; break -- from member k on.
RECURSIVE DeriveFrom(_, _)
DeriveFrom(fn, k) ==
    IF k > Len(ErrorCategory) THEN None
    ELSE IF Contains(Lower(CategoryName[k]), Lower(fn))
    THEN <<ErrorCategory[k]>>
    ELSE DeriveFrom(fn, k + 1)

\* The prefix derived from the function name when none is given.
DerivePrefix(fn) == DeriveFrom(fn, 1)

\* prefix_str = prefix.value if prefix else "GEN"
PrefixStr(fn, prefix) ==
    LET p == IF prefix = None THEN DerivePrefix(fn) ELSE prefix
    IN  IF p # None THEN p[1] ELSE "GEN"

\* Position of a character in the alphabet of the identifiers.
CharCode(c) ==
    IF \E i \in 1..Len(LowerLetters) : LowerLetters[i] = LowerChar(c)
    THEN (CHOOSE i \in 1..Len(LowerLetters) : LowerLetters[i] = LowerChar(c))
         + (IF c = LowerChar(c) THEN 0 ELSE 32)
    ELSE 0

\* hash(function_name): the built-in string hash, a keyed hash whose key is
\* drawn anew for every process unless PYTHONHASHSEED pins it.  Modelled as a
\* keyed polynomial over the characters, signed like the built-in.
RECURSIVE KeyedSum(_, _, _)
KeyedSum(s, key, h) ==
    IF s = <<>> THEN h
    ELSE KeyedSum(Tail(s), key, (h * 31 + CharCode(Head(s)) + 977 * key) % 8192)

StrHash(s, key) == KeyedSum(s, key, 7 + 4001 * key) - 4096

Abs(n) == IF n < 0 THEN 0 - n ELSE n

\* Decimal digits of a natural number, most significant first.
RECURSIVE Digits(_)
Digits(n) == IF n < 10 THEN <<n>> ELSE Append(Digits(n \div 10), n % 10)

\* Format spec 03d: zero-padded to a width of at least three.
RECURSIVE ZeroPad(_, _)
ZeroPad(d, w) == IF Len(d) >= w THEN d ELSE ZeroPad(<<0>> \o d, w)

Format03d(n) == ZeroPad(Digits(n), 3)

\* Mutant: abs() is missing.
FormatCodeNoAbs(prefix_str, h) ==
    [category |-> prefix_str, number |-> Format03d(h % 1000)]

\* f"{prefix_str}-ERR-{abs(h) % 1000:03d}" for the hash value h.
FormatCode(prefix_str, h) ==
    [category |-> prefix_str, number |-> Format03d(Abs(h) % 1000)]

\* error_code = f"{prefix_str}-ERR-{abs(hash(function_name)) % 1000:03d}"
ErrorCode(fn, prefix, key) ==
    FormatCode(PrefixStr(fn, prefix), StrHash(fn, key))

Seeds == 0..MaxSeed

\* The codes of every call, computed once.
ErrorCodes ==
    [fn \in FunctionNames \cup ToolNames |->
        [prefix \in Prefixes |->
            [key \in Seeds |-> ErrorCode(fn, prefix, key)]]]

\* logger.exception(f"{function_name} failed ({context}): {error}"): one
\* record of level ERROR that carries the exception text and traceback.
ErrorRecord(fn) ==
    [level |-> "ERROR", function_name |-> fn, exc_info |-> TRUE]

\* --------------------------------------------------------------- state
\* Mutant: the messages collected before the failure are returned too.
ErrorResultPartial(fn, key) ==
    [kind |-> "error", ids |-> messages, code |-> ErrorCodes[fn][None][key]]

\* The value of the except clause: the string of log_and_format_error alone.
ErrorResult(fn, key) ==
    [kind |-> "error", ids |-> <<>>, code |-> ErrorCodes[fn][None][key]]

\* Mutant: a scan asks for the next page while messages are still buffered.
PendingRequestEager ==
    CASE pc = "get_entity" -> <<EntityRequest>>
      [] pc \in {"search_scan", "forward_scan", "backward_scan"} /\ ~exhausted ->
            <<StrategyRequest(pc, search_query, from_date_obj, to_date_obj, limit)>>
      [] pc = "plain_fetch" -> <<PlainRequest(limit)>>
      [] OTHER -> <<>>

NoResult == [kind |-> "none", ids |-> <<>>, code |-> <<>>]

Scanning == {"search_scan", "forward_scan", "backward_scan"}

\* No get_message_context call is in progress.
CtxIdle ==
    /\ cpc = "idle"
    /\ message_id = 0
    /\ context_size = 0
    /\ messages_before = <<>>
    /\ central_message = <<>>
    /\ messages_after = <<>>
    /\ all_messages = <<>>
    /\ results = <<>>
    /\ lookup = <<>>
    /\ ccalls = <<>>
    /\ cresult = [kind |-> "none", named |-> <<>>, window |-> <<>>, code |-> <<>>]

\* No conversation is set up for get_message_context.
NoConversation ==
    /\ conv = {}
    /\ reply_to = <<>>
    /\ overlap = FALSE

\* A fresh process with an empty diagnostic log.
ErrIdle ==
    /\ hashseed = 0
    /\ run = 1
    /\ errlog = <<>>
    /\ returned = <<>>

\* No other tool is running; voice.py has been loaded.
ToolIdle ==
    /\ tool = <<>>
    /\ tpc = "idle"
    /\ targs = <<>>
    /\ tcalls = <<>>
    /\ treturn = <<>>
    /\ voice_importable = FALSE
    /\ VoicebotClient = None

\* No error code is being composed.
HashIdle ==
    /\ function_name = <<>>
    /\ hash_value = 0
    /\ error_code = <<>>

\* No list_messages call is in progress.
ListIdle ==
    /\ pc = "idle"
    /\ limit = 0
    /\ search_query = ""
    /\ from_date = None
    /\ to_date = None
    /\ from_date_obj = None
    /\ to_date_obj = None
    /\ feed = <<>>
    /\ pos = 0
    /\ buffer = <<>>
    /\ exhausted = FALSE
    /\ messages = <<>>
    /\ calls = <<>>
    /\ result = NoResult

Init ==
    /\ ToolIdle
    /\ HashIdle
    /\ NoConversation
    /\ CtxIdle
    /\ ErrIdle
    /\ log \in Logs \cup {ScenarioLog, BusyLog}
    /\ pc = "idle"
    /\ limit = 0
    /\ search_query = ""
    /\ from_date = None
    /\ to_date = None
    /\ from_date_obj = None
    /\ to_date_obj = None
    /\ feed = <<>>
    /\ pos = 0
    /\ buffer = <<>>
    /\ exhausted = FALSE
    /\ messages = <<>>
    /\ calls = <<>>
    /\ result = NoResult

\* The remote request the coroutine is suspended on, if any.
PendingRequest ==
    CASE pc = "get_entity" -> <<EntityRequest>>
      [] pc \in Scanning /\ buffer = <<>> /\ ~exhausted ->
            <<StrategyRequest(pc, search_query, from_date_obj, to_date_obj, limit)>>
      [] pc = "plain_fetch" -> <<PlainRequest(limit)>>
      [] OTHER -> <<>>

\* A caller invokes list_messages(chat_id, limit, search_query, from_date,
\* to_date); the server is followed through one call at a time.
ListMessages ==
    /\ pc = "idle"
    /\ cpc = "idle"
    /\ Len(errlog) < MaxFailedCalls
    /\ \E lim \in Limits, q \in Queries, fd \in DateStrings, td \in DateStrings :
          /\ limit' = lim
          /\ search_query' = q
          /\ from_date' = fd
          /\ to_date' = td
    /\ pc' = "get_entity"
    /\ from_date_obj' = None
    /\ to_date_obj' = None
    /\ feed' = <<>>
    /\ pos' = 0
    /\ buffer' = <<>>
    /\ exhausted' = FALSE
    /\ messages' = <<>>
    /\ calls' = <<>>
    /\ result' = NoResult
    /\ UNCHANGED log
    /\ UNCHANGED <<cvars, evars, tvars, hvars>>

\* entity = await client.get_entity(chat_id)
GetEntity ==
    /\ pc = "get_entity"
    /\ calls' = Append(calls, EntityRequest)
    /\ pc' = "parse_from"
    /\ UNCHANGED <<log, limit, search_query, from_date, to_date, from_date_obj,
                   to_date_obj, feed, pos, buffer, exhausted, messages, result>>
    /\ UNCHANGED <<cvars, evars, tvars, hvars>>

\* if from_date: strptime, or return the from_date validation message.
ParseFromDate ==
    /\ pc = "parse_from"
    /\ IF from_date = None
       THEN /\ pc' = "parse_to"
            /\ UNCHANGED <<from_date_obj, result>>
       ELSE IF ValidDate(from_date)
       THEN /\ from_date_obj' = <<ParseDate(from_date)>>
            /\ pc' = "parse_to"
            /\ UNCHANGED result
       ELSE /\ result' = [kind |-> "invalid_from", ids |-> <<>>, code |-> <<>>]
            /\ pc' = "done"
            /\ UNCHANGED from_date_obj
    /\ UNCHANGED <<log, limit, search_query, from_date, to_date, to_date_obj,
                   feed, pos, buffer, exhausted, messages, calls>>
    /\ UNCHANGED <<cvars, evars, tvars, hvars>>

\* if to_date: strptime and move to the end of the day, or return the
\* to_date validation message.
ParseToDate ==
    /\ pc = "parse_to"
    /\ IF to_date = None
       THEN /\ pc' = "select"
            /\ UNCHANGED <<to_date_obj, result>>
       ELSE IF ValidDate(to_date)
       THEN /\ to_date_obj' = <<EndOfDay(ParseDate(to_date))>>
            /\ pc' = "select"
            /\ UNCHANGED result
       ELSE /\ result' = [kind |-> "invalid_to", ids |-> <<>>, code |-> <<>>]
            /\ pc' = "done"
            /\ UNCHANGED to_date_obj
    /\ UNCHANGED <<log, limit, search_query, from_date, to_date, from_date_obj,
                   feed, pos, buffer, exhausted, messages, calls>>
    /\ UNCHANGED <<cvars, evars, tvars, hvars>>

\* The if/else ladder choosing the retrieval branch; a scanning branch opens
\* its iterator (no request is sent before the first item is awaited).
SelectStrategy ==
    /\ pc = "select"
    /\ LET st == Strategy(search_query, from_date_obj, to_date_obj) IN
          /\ pc' = st
          /\ IF st \in Scanning
             THEN \E slack \in 0..MaxSlack :
                     feed' = RemoteFeed(log,
                                StrategyRequest(st, search_query, from_date_obj,
                                                to_date_obj, limit),
                                slack)
             ELSE feed' = <<>>
    /\ pos' = 0
    /\ buffer' = <<>>
    /\ exhausted' = FALSE
    /\ messages' = <<>>
    /\ UNCHANGED <<log, limit, search_query, from_date, to_date, from_date_obj,
                   to_date_obj, calls, result>>
    /\ UNCHANGED <<cvars, evars, tvars, hvars>>

\* The iterator has nothing buffered: it requests the next page of at most
\* PageSize items; a short page ends the iteration.
FetchPage ==
    /\ pc \in Scanning
    /\ buffer = <<>>
    /\ ~exhausted
    /\ LET page == SubSeq(feed, pos + 1, Min(pos + PageSize, Len(feed))) IN
          /\ buffer' = page
          /\ pos' = pos + Len(page)
          /\ exhausted' = (Len(page) < PageSize)
    /\ calls' = Append(calls, PendingRequest[1])
    /\ UNCHANGED <<log, pc, limit, search_query, from_date, to_date,
                   from_date_obj, to_date_obj, feed, messages, result>>
    /\ UNCHANGED <<cvars, evars, tvars, hvars>>

\* A loop body whose continue leaves the message in front of the loop.
LoopBodyRevisits(step) ==
    LET msg == log[Head(buffer)] IN
    /\ buffer # <<>>
    /\ IF step = "continue"
       THEN UNCHANGED <<buffer, pc, messages>>
       ELSE IF step = "break"
       THEN /\ buffer' = <<>>
            /\ pc' = "format"
            /\ UNCHANGED messages
       ELSE /\ messages' = Append(messages, msg.id)
            /\ IF LimitReached(Len(messages'), limit)
               THEN /\ buffer' = <<>>
                    /\ pc' = "format"
               ELSE /\ buffer' = Tail(buffer)
                    /\ UNCHANGED pc
    /\ UNCHANGED <<log, limit, search_query, from_date, to_date, from_date_obj,
                   to_date_obj, feed, pos, exhausted, calls, result>>
    /\ UNCHANGED <<cvars, evars, tvars, hvars>>

\* One pass of a loop body over the next buffered message: continue, break,
\* or append followed by the limit test.
LoopBody(step) ==
    LET msg == log[Head(buffer)] IN
    /\ buffer # <<>>
    /\ IF step = "continue"
       THEN /\ buffer' = Tail(buffer)
            /\ UNCHANGED <<pc, messages>>
       ELSE IF step = "break"
       THEN /\ buffer' = <<>>
            /\ pc' = "format"
            /\ UNCHANGED messages
       ELSE /\ messages' = Append(messages, msg.id)
            /\ IF LimitReached(Len(messages'), limit)
               THEN /\ buffer' = <<>>
                    /\ pc' = "format"
               ELSE /\ buffer' = Tail(buffer)
                    /\ UNCHANGED pc
    /\ UNCHANGED <<log, limit, search_query, from_date, to_date, from_date_obj,
                   to_date_obj, feed, pos, exhausted, calls, result>>
    /\ UNCHANGED <<cvars, evars, tvars, hvars>>

\* async for msg in client.iter_messages(entity, search=...): newest -> oldest
SearchBody ==
    /\ pc = "search_scan"
    /\ buffer # <<>>
    /\ LoopBody(SearchStep(log[Head(buffer)].date, from_date_obj, to_date_obj))

\* async for msg in client.iter_messages(entity, offset_date=from_date_obj,
\* reverse=True): oldest -> newest
ForwardBody ==
    /\ pc = "forward_scan"
    /\ buffer # <<>>
    /\ LoopBody(ForwardStep(log[Head(buffer)].date, from_date_obj, to_date_obj))

\* async for msg in client.iter_messages(entity, offset_date=to_date_obj+1us)
BackwardBody ==
    /\ pc = "backward_scan"
    /\ buffer # <<>>
    /\ LoopBody(BackwardStep(log[Head(buffer)].date, from_date_obj, to_date_obj))

\* The iterator is exhausted: the async for loop ends normally.
LoopEnd ==
    /\ pc \in Scanning
    /\ buffer = <<>>
    /\ exhausted
    /\ pc' = "format"
    /\ UNCHANGED <<log, limit, search_query, from_date, to_date, from_date_obj,
                   to_date_obj, feed, pos, buffer, exhausted, messages, calls,
                   result>>
    /\ UNCHANGED <<cvars, evars, tvars, hvars>>

\* messages = await client.get_messages(entity, limit=limit)
PlainFetch ==
    /\ pc = "plain_fetch"
    /\ calls' = Append(calls, PlainRequest(limit))
    /\ messages' = RemoteGetMessages(log, PlainRequest(limit))
    /\ pc' = "format"
    /\ UNCHANGED <<log, limit, search_query, from_date, to_date, from_date_obj,
                   to_date_obj, feed, pos, buffer, exhausted, result>>
    /\ UNCHANGED <<cvars, evars, tvars, hvars>>

\* if not messages: return "No messages found..."; else one line per message.
Format ==
    /\ pc = "format"
    /\ result' = IF messages = <<>>
                 THEN [kind |-> "no_messages", ids |-> <<>>, code |-> <<>>]
                 ELSE [kind |-> "lines", ids |-> messages, code |-> <<>>]
    /\ pc' = "done"
    /\ UNCHANGED <<log, limit, search_query, from_date, to_date, from_date_obj,
                   to_date_obj, feed, pos, buffer, exhausted, messages, calls>>
    /\ UNCHANGED <<cvars, evars, tvars, hvars>>

\* An awaited remote call raises: control moves to the except clause.
RemoteRaises ==
    /\ PendingRequest # <<>>
    /\ calls' = Append(calls, PendingRequest[1])
    /\ pc' = "except"
    /\ UNCHANGED <<log, limit, search_query, from_date, to_date, from_date_obj,
                   to_date_obj, feed, pos, buffer, exhausted, messages, result>>
    /\ UNCHANGED <<cvars, evars, tvars, hvars>>

\* except Exception as e: return log_and_format_error("list_messages", e, ...)
Except ==
    /\ pc = "except"
    /\ errlog' = Append(errlog, ErrorRecord(ListMessagesName))
    /\ result' = ErrorResult(ListMessagesName, hashseed)
    /\ pc' = "done"
    /\ UNCHANGED <<log, limit, search_query, from_date, to_date, from_date_obj,
                   to_date_obj, feed, pos, buffer, exhausted, messages, calls>>
    /\ UNCHANGED <<hashseed, run, returned>>
    /\ UNCHANGED <<cvars, tvars, hvars>>

\* The call has returned; the server waits for the next call.
Return ==
    /\ pc = "done"
    /\ pc' = "idle"
    /\ limit' = 0
    /\ search_query' = ""
    /\ from_date' = None
    /\ to_date' = None
    /\ from_date_obj' = None
    /\ to_date_obj' = None
    /\ feed' = <<>>
    /\ pos' = 0
    /\ buffer' = <<>>
    /\ exhausted' = FALSE
    /\ messages' = <<>>
    /\ calls' = <<>>
    /\ result' = NoResult
    /\ UNCHANGED log
    /\ UNCHANGED <<cvars, evars, tvars, hvars>>

Next ==
    \/ ListMessages
    \/ GetEntity
    \/ ParseFromDate
    \/ ParseToDate
    \/ SelectStrategy
    \/ FetchPage
    \/ SearchBody
    \/ ForwardBody
    \/ BackwardBody
    \/ LoopEnd
    \/ PlainFetch
    \/ Format
    \/ RemoteRaises
    \/ Except
    \/ Return

Spec == Init /\ [][Next]_vars

\* The event loop keeps running a coroutine that can take a step: an awaited
\* remote call returns or raises, and a step that is not suspended runs on.
\* The conversations are the ten-message ones.
FairInit ==
    /\ Init
    /\ log \in {ScenarioLog, BusyLog}

FairSpec == FairInit /\ [][Next]_vars /\ WF_vars(Next)

\* ============================================ log_and_format_error calls
\* A server process that only serves log_and_format_error calls.
ErrInit ==
    /\ ToolIdle
    /\ HashIdle
    /\ NoConversation
    /\ CtxIdle
    /\ log = <<>>
    /\ ListIdle
    /\ hashseed \in Seeds
    /\ run = 1
    /\ errlog = <<>>
    /\ returned = <<>>

\* log_and_format_error(function_name, error, prefix): derives the code,
\* writes one record to the diagnostic log, returns the message with the code.
LogAndFormatError ==
    /\ Len(returned) < MaxErrors
    /\ \E fn \in FunctionNames, prefix \in Prefixes :
          /\ errlog' = Append(errlog, ErrorRecord(fn))
          /\ returned' = Append(returned,
                            [function_name |-> fn, prefix |-> prefix, run |-> run,
                             code |-> ErrorCodes[fn][prefix][hashseed]])
    /\ UNCHANGED <<hashseed, run>>
    /\ UNCHANGED <<vars, cvars, tvars, hvars>>

\* The server process ends and a new one starts: a new hash seed; the log
\* file is opened in append mode.
Restart ==
    /\ run < MaxRuns
    /\ run' = run + 1
    /\ hashseed' \in Seeds
    /\ UNCHANGED <<errlog, returned>>
    /\ UNCHANGED <<vars, cvars, tvars, hvars>>

ErrNext ==
    \/ LogAndFormatError
    \/ Restart

ErrSpec == ErrInit /\ [][ErrNext]_evars

\* ------------------------------------------------ the error code alone
\* Values hash(function_name) can take: negative, zero and positive, below
\* and above 1000.
HashValues == (0 - MaxHash)..MaxHash

\* prefix_str of every identifier passed without a prefix, computed once.
DerivedPrefixStr == [fn \in FunctionNames |-> PrefixStr(fn, None)]

HashInit ==
    /\ NoConversation
    /\ CtxIdle
    /\ log = <<>>
    /\ ListIdle
    /\ ErrIdle
    /\ ToolIdle
    /\ function_name \in FunctionNames
    /\ hash_value \in HashValues
    /\ error_code = <<>>

\* error_code = f"{prefix_str}-ERR-{abs(hash(function_name)) % 1000:03d}"
\* where hash(function_name) is hash_value.
ComposeCode ==
    /\ error_code = <<>>
    /\ error_code' = FormatCode(DerivedPrefixStr[function_name], hash_value)
    /\ UNCHANGED <<function_name, hash_value>>
    /\ UNCHANGED <<vars, cvars, evars, tvars>>

HashNext ==
    \/ ComposeCode

HashSpec == HashInit /\ [][HashNext]_hvars

\* ========================================================= the other tools
\* Strings returned to the caller.  detail tells whether the string holds the
\* text of an exception.
\* A result computed from remote data.
Value(detail) ==
    [kind |-> "value", text |-> "", code |-> <<>>, detail |-> detail]

\* A fixed text.
Fixed(text) ==
    [kind |-> "fixed", text |-> text, code |-> <<>>, detail |-> FALSE]

\* A fixed text followed by the text of the exception: f"... {e}".
FixedWithException(text) ==
    [kind |-> "fixed", text |-> text, code |-> <<>>, detail |-> TRUE]

\* The return value of log_and_format_error(fn, e, ...):
\* "An error occurred (code: ...). Check mcp_errors.log for details."
Coded(fn, key) ==
    [kind |-> "error", text |-> "", code |-> ErrorCodes[fn][None][key],
     detail |-> FALSE]

\* logger.setLevel(logging.ERROR): records below ERROR are dropped.
Emit(lg, level, fn) ==
    IF level \in {"ERROR", "CRITICAL"}
    THEN Append(lg, [level |-> level, function_name |-> fn, exc_info |-> TRUE])
    ELSE lg

\* voice.py module load.  The import attempts bind VoicebotClient to the class
\* when one of the two packages can be imported, to None otherwise.
ImportVoicebotClient(importable) ==
    IF importable THEN <<"VoicebotClient">> ELSE None

\* Module-level names of main.py that voice.py reads.
MainNames == {"client", "mcp", "logger", "log_and_format_error", "get_sender_name"}

\* getattr(telegram_main, name, None)
GetAttr(name) == IF name \in MainNames THEN <<name>> ELSE None

\* Mutant: the name keeps what the import attempts bound.
RebindKeepsImport(imported) == imported

\* VoicebotClient = getattr(telegram_main, "VoicebotClient", None)
Rebind(imported) == GetAttr("VoicebotClient")

\* The arguments a tool is called with, as far as they steer it.
ToolArgs(t) ==
    IF t = InviteToGroup THEN {<<n>> : n \in 0..MaxUsers}
    ELSE IF t = MessagesToVoicebot
    THEN {<<lim, q, fd, td>> : lim \in Limits, q \in Queries,
                               fd \in DateStrings, td \in DateStrings}
    ELSE {<<>>}

\* The first awaited call of a tool.
FirstStep(t) ==
    IF t \in {GetAdmins, GetPrivacySettings} THEN "request" ELSE "entity"

ToolInit ==
    /\ NoConversation
    /\ CtxIdle
    /\ log = <<>>
    /\ ListIdle
    /\ ErrIdle
    /\ HashIdle
    /\ tool = <<>>
    /\ tpc = "idle"
    /\ targs = <<>>
    /\ tcalls = <<>>
    /\ treturn = <<>>
    /\ voice_importable \in BOOLEAN
    /\ VoicebotClient = Rebind(ImportVoicebotClient(voice_importable))

\* A caller invokes one of the tools.
CallTool ==
    /\ tpc = "idle"
    /\ treturn = <<>>
    /\ \E t \in ToolNames : \E a \in ToolArgs(t) :
          /\ tool' = t
          /\ targs' = a
          /\ tpc' = FirstStep(t)
    /\ UNCHANGED <<tcalls, treturn, voice_importable, VoicebotClient>>
    /\ UNCHANGED <<vars, cvars, evars, hvars>>

\* An awaited call of tool t at position at returns or is handled (or, with
\* call = "", a step without a remote call): the tool writes lg to the
\* diagnostic log and moves on.
ToolStep(t, at, to, call, args, lg) ==
    /\ tool = t
    /\ tpc = at
    /\ tpc' = to
    /\ tcalls' = IF call = "" THEN tcalls ELSE Append(tcalls, call)
    /\ targs' = args
    /\ errlog' = lg
    /\ UNCHANGED <<tool, treturn, voice_importable, VoicebotClient>>
    /\ UNCHANGED <<hashseed, run, returned>>
    /\ UNCHANGED <<vars, cvars, hvars>>

\* Tool t at position at returns ret to the caller, after the awaited call
\* (if any) and after writing lg to the diagnostic log.
ToolReturn(t, at, call, ret, lg) ==
    /\ tool = t
    /\ tpc = at
    /\ tpc' = "done"
    /\ tcalls' = IF call = "" THEN tcalls ELSE Append(tcalls, call)
    /\ treturn' = ret
    /\ errlog' = lg
    /\ UNCHANGED <<tool, targs, voice_importable, VoicebotClient>>
    /\ UNCHANGED <<hashseed, run, returned>>
    /\ UNCHANGED <<vars, cvars, hvars>>

\* ------------------------------------------------------------ get_admins
\* participants = await client.get_participants(...); the lines, or
\* "No admins found."
AdminsParticipants ==
    /\ tool = GetAdmins
    /\ \E found \in BOOLEAN :
        ToolReturn(GetAdmins, "request", "get_participants",
                   IF found THEN Value(FALSE) ELSE Fixed("No admins found."),
                   errlog)

\* except Exception as e: logger.exception(...); return
\* log_and_format_error("get_admins", e, ...)
AdminsExcept ==
    /\ tool = GetAdmins
    /\ ToolReturn(GetAdmins, "request", "get_participants",
               Coded(GetAdmins, hashseed),
               Emit(Emit(errlog, "ERROR", GetAdmins), "ERROR", GetAdmins))

\* -------------------------------------------------- get_privacy_settings
\* settings = await client(GetPrivacyRequest(...)); return str(settings)
PrivacyRequest ==
    /\ tool = GetPrivacySettings
    /\ ToolReturn(GetPrivacySettings, "request", "GetPrivacyRequest",
               Value(FALSE), errlog)

\* except TypeError as e: if "TLObject was expected" in str(e): return the
\* fixed text.
PrivacyTypeMismatch ==
    /\ tool = GetPrivacySettings
    /\ ToolReturn(GetPrivacySettings, "request", "GetPrivacyRequest",
               Fixed("Error: Privacy settings API call failed"), errlog)

\* Another TypeError is raised again, any other exception passes: except
\* Exception as e: logger.exception(...); return log_and_format_error(...)
PrivacyExcept ==
    /\ tool = GetPrivacySettings
    /\ ToolReturn(GetPrivacySettings, "request", "GetPrivacyRequest",
               Coded(GetPrivacySettings, hashseed),
               Emit(Emit(errlog, "ERROR", GetPrivacySettings),
                    "ERROR", GetPrivacySettings))

\* --------------------------------------------------------------- get_chat
\* entity = await client.get_entity(chat_id): a group or channel (it has a
\* title) or a user.
ChatEntity ==
    /\ tool = GetChat
    /\ \E titled \in BOOLEAN :
        ToolStep(GetChat, "entity",
                 IF titled THEN "participants" ELSE "dialogs",
                 "get_entity", <<>>, errlog)

\* participants_count = (await client.get_participants(entity, limit=0)).total
\* except Exception as pe: result.append(f"Participants: Error fetching ({pe})")
ChatParticipants ==
    /\ tool = GetChat
    /\ \E raised \in BOOLEAN :
        ToolStep(GetChat, "participants", "dialogs", "get_participants",
                 IF raised THEN <<"pe">> ELSE <<>>, errlog)

\* dialog = await client.get_dialogs(...); except Exception as diag_ex:
\* logger.warning(...); then return "\n".join(result)
ChatDialogs ==
    /\ tool = GetChat
    /\ \E raised \in BOOLEAN :
        ToolReturn(GetChat, "dialogs", "get_dialogs",
                   Value(targs # <<>>),
                   IF raised THEN Emit(errlog, "WARNING", GetChat) ELSE errlog)

\* except Exception as e: return log_and_format_error("get_chat", e, ...)
ChatExcept ==
    /\ tool = GetChat
    /\ ToolReturn(GetChat, "entity", "get_entity",
               Coded(GetChat, hashseed), Emit(errlog, "ERROR", GetChat))

\* -------------------------------------------------------- invite_to_group
\* entity = await client.get_entity(group_id)
InviteEntity ==
    /\ tool = InviteToGroup
    /\ ToolStep(InviteToGroup, "entity", "users", "get_entity", targs, errlog)

\* for user_id in user_ids: user = await client.get_entity(user_id)
InviteUser ==
    /\ tool = InviteToGroup
    /\ tpc = "users"
    /\ targs[1] > 0
    /\ ToolStep(InviteToGroup, "users", "users", "get_entity", <<targs[1] - 1>>,
                errlog)

\* except ValueError as e: return f"Error: User with ID {user_id} could not
\* be found. {e}"
InviteUserNotFound ==
    /\ tool = InviteToGroup
    /\ tpc = "users"
    /\ targs[1] > 0
    /\ ToolReturn(InviteToGroup, "users", "get_entity",
                  FixedWithException("Error: User with ID could not be found."),
                  errlog)

\* result = await client(InviteToChannelRequest(...)): success, or one of the
\* two errors answered with a fixed text.
InviteRequest ==
    /\ tool = InviteToGroup
    /\ tpc = "users"
    /\ targs[1] = 0
    /\ \E outcome \in {"invited", "not_mutual", "privacy"} :
          ToolReturn(InviteToGroup, "users", "InviteToChannelRequest",
                     IF outcome = "invited" THEN Value(FALSE)
                     ELSE IF outcome = "not_mutual"
                     THEN Fixed("Error: Cannot invite users who are not mutual contacts.")
                     ELSE Fixed("Error: One or more users have privacy settings"),
                     errlog)

\* Inner except Exception as e: return log_and_format_error("invite_to_group", ...)
InviteRequestExcept ==
    /\ tool = InviteToGroup
    /\ tpc = "users"
    /\ targs[1] = 0
    /\ ToolReturn(InviteToGroup, "users", "InviteToChannelRequest",
                  Coded(InviteToGroup, hashseed),
                  Emit(errlog, "ERROR", InviteToGroup))

\* Outer except Exception as e (the group lookup, or a user lookup raising
\* something other than ValueError): logger.error(..., exc_info=True); return
\* log_and_format_error("invite_to_group", ...)
InviteExcept ==
    /\ tool = InviteToGroup
    /\ tpc = "entity" \/ (tpc = "users" /\ targs[1] > 0)
    /\ ToolReturn(InviteToGroup, tpc, "get_entity",
                  Coded(InviteToGroup, hashseed),
                  Emit(Emit(errlog, "ERROR", InviteToGroup),
                       "ERROR", InviteToGroup))

\* -------------------------------------------------------- get_invite_link
\* Mutant: the client method is tried before the raw request.
AlternativesMethodFirst ==
    <<"export_chat_invite_link", "ExportChatInviteRequest", "GetFullChatRequest">>

\* The alternatives, in the order of the code.
Alternatives ==
    <<"ExportChatInviteRequest", "export_chat_invite_link", "GetFullChatRequest">>

\* entity = await client.get_entity(chat_id): a Chat or Channel, or not.
LinkEntity ==
    /\ tool = GetInviteLink
    /\ \E group \in BOOLEAN :
        ToolStep(GetInviteLink, "entity", Alternatives[1], "get_entity",
                 <<group>>, errlog)

\* result = await client(ExportChatInviteRequest(peer=entity)); return
\* result.link -- or a warning below the logger's level, and on.
LinkExportRequest ==
    /\ tool = GetInviteLink
    /\ \/ ToolReturn(GetInviteLink, Alternatives[1], Alternatives[1],
                     Value(FALSE), errlog)
       \/ ToolStep(GetInviteLink, Alternatives[1], Alternatives[2],
                   Alternatives[1], targs,
                   Emit(errlog, "WARNING", GetInviteLink))

\* invite_link = await client.export_chat_invite_link(entity); return it --
\* or a warning, and on.
LinkExportLink ==
    /\ tool = GetInviteLink
    /\ \/ ToolReturn(GetInviteLink, Alternatives[2], Alternatives[2],
                     Value(FALSE), errlog)
       \/ ToolStep(GetInviteLink, Alternatives[2], Alternatives[3],
                   Alternatives[2], targs,
                   Emit(errlog, "WARNING", GetInviteLink))

\* if isinstance(entity, (Chat, Channel)): full_chat = await
\* client(GetFullChatRequest(...)): the link, "No invite link available." for
\* an empty one; without the attribute, or on an exception (warning), the
\* final fixed text.
LinkFullChat ==
    /\ tool = GetInviteLink
    /\ tpc = Alternatives[3]
    /\ targs[1]
    /\ \E outcome \in {"link", "empty", "no_attribute", "raised"} :
          ToolReturn(GetInviteLink, Alternatives[3], Alternatives[3],
                     IF outcome = "link" THEN Value(FALSE)
                     ELSE IF outcome = "empty"
                     THEN Fixed("No invite link available.")
                     ELSE Fixed("Could not retrieve invite link for this chat."),
                     IF outcome = "raised"
                     THEN Emit(errlog, "WARNING", GetInviteLink) ELSE errlog)

\* The entity is neither Chat nor Channel: no third call.
LinkNoFullChat ==
    /\ tool = GetInviteLink
    /\ tpc = Alternatives[3]
    /\ ~targs[1]
    /\ ToolReturn(GetInviteLink, Alternatives[3], "",
                  Fixed("Could not retrieve invite link for this chat."),
                  errlog)

\* except Exception as e: logger.exception(...); return
\* log_and_format_error("get_invite_link", e, ...)
LinkExcept ==
    /\ tool = GetInviteLink
    /\ ToolReturn(GetInviteLink, "entity", "get_entity",
               Coded(GetInviteLink, hashseed),
               Emit(Emit(errlog, "ERROR", GetInviteLink),
                    "ERROR", GetInviteLink))

\* ------------------------------------------- voice.py messages_to_voicebot
\* entity = await client.get_entity(chat_id)
VoiceEntity ==
    /\ tool = MessagesToVoicebot
    /\ ToolStep(MessagesToVoicebot, "entity", "check", "get_entity", targs,
                errlog)

\* if VoicebotClient is None: return "VoicebotClient is not available."
VoiceUnavailable ==
    /\ tool = MessagesToVoicebot
    /\ VoicebotClient = None
    /\ ToolReturn(MessagesToVoicebot, "check", "",
                  Fixed("VoicebotClient is not available."), errlog)

\* except Exception as e: return log_and_format_error("messages_to_voicebot", ...)
VoiceExcept ==
    /\ tool = MessagesToVoicebot
    /\ ToolReturn(MessagesToVoicebot, "entity", "get_entity",
               Coded(MessagesToVoicebot, hashseed),
               Emit(errlog, "ERROR", MessagesToVoicebot))

ToolNext ==
    \/ CallTool
    \/ AdminsParticipants
    \/ AdminsExcept
    \/ PrivacyRequest
    \/ PrivacyTypeMismatch
    \/ PrivacyExcept
    \/ ChatEntity
    \/ ChatParticipants
    \/ ChatDialogs
    \/ ChatExcept
    \/ InviteEntity
    \/ InviteUser
    \/ InviteUserNotFound
    \/ InviteRequest
    \/ InviteRequestExcept
    \/ InviteExcept
    \/ LinkEntity
    \/ LinkExportRequest
    \/ LinkExportLink
    \/ LinkFullChat
    \/ LinkNoFullChat
    \/ LinkExcept
    \/ VoiceEntity
    \/ VoiceUnavailable
    \/ VoiceExcept

ToolSpec == ToolInit /\ [][ToolNext]_<<tvars, evars>>

\* ==================================================== get_message_context
\* A conversation is the set of ids of its messages; reply_to maps a message
\* to the id it replies to (0: not a reply).  The target of a reply may have
\* been deleted.
CtxIds == 1..MaxCtxId

\* Values of the message_id argument: ids that exist and ids that do not.
PivotIds == 1..(MaxCtxId + 1)

ReplyTargets(i) == {0} \cup {t \in 1..2 : t < i}

ScenarioConv == 1..10

Conversations ==
    \/ /\ conv \in SUBSET CtxIds
       /\ reply_to \in {f \in [conv -> 0..2] : \A i \in conv : f[i] \in ReplyTargets(i)}
    \/ /\ conv = ScenarioConv
       /\ reply_to = [i \in ScenarioConv |-> 0]

ChatId == "chat_id"

\* The ids of a set, ascending.
RECURSIVE AscendingIds(_)
AscendingIds(S) ==
    IF S = {} THEN <<>>
    ELSE LET m == CHOOSE x \in S : \A y \in S : x <= y
         IN  <<m>> \o AscendingIds(S \ {m})

\* client.get_messages(chat, limit=n, max_id=pivot): the newest n messages
\* below max_id, newest first.  A remote that returns overlaps includes the
\* boundary id itself.
RemoteBefore(c, pivot, n, ov) ==
    Take(Reverse(AscendingIds({i \in c : i < pivot \/ (ov /\ i = pivot)})), n)

\* client.get_messages(chat, ids=pivot): the message, or None.
RemoteById(c, id) == IF id \in c THEN <<id>> ELSE <<>>

\* client.get_messages(chat, limit=n, min_id=pivot, reverse=True): the oldest
\* n messages above min_id, oldest first.
RemoteAfter(c, pivot, n, ov) ==
    Take(AscendingIds({i \in c : i > pivot \/ (ov /\ i = pivot)}), n)

\* Mutant: the merged list is left in fetch order.
NoSort(ms) == ms

\* list.sort(key=lambda m: m.id): stable insertion of each element.
RECURSIVE InsertById(_, _)
InsertById(sorted, m) ==
    IF sorted = <<>> THEN <<m>>
    ELSE IF m < Head(sorted) THEN <<m>> \o sorted
    ELSE <<Head(sorted)>> \o InsertById(Tail(sorted), m)

RECURSIVE SortById(_)
SortById(ms) ==
    IF ms = <<>> THEN <<>>
    ELSE InsertById(SortById(SubSeq(ms, 1, Len(ms) - 1)), ms[Len(ms)])

\* Mutant: the window is assembled whether or not the pivot was found.
CentralMissingNever(central) == FALSE

\* if not central_message
CentralMissing(central) == central = <<>>

\* highlight = " [THIS MESSAGE]" if msg.id == message_id else ""
Highlight(id, pivot) == id = pivot

\* msg.reply_to and msg.reply_to.reply_to_msg_id
IsReply(id) == reply_to[id] # 0

\* One line of the context: the message, the pivot flag and the reply part
\* ("none": no reply part, "preview": the replied message, "placeholder":
\* the fixed 'original message not found' text).
Entry(id, reply) ==
    [id |-> id, highlight |-> Highlight(id, message_id), reply |-> reply]

CtxInit ==
    /\ ToolIdle
    /\ HashIdle
    /\ log = <<>>
    /\ ListIdle
    /\ ErrIdle
    /\ CtxIdle
    /\ Conversations
    /\ overlap = FALSE

\* The same program against a remote source that may return overlaps.
CtxOverlapInit ==
    /\ ToolIdle
    /\ HashIdle
    /\ log = <<>>
    /\ ListIdle
    /\ ErrIdle
    /\ CtxIdle
    /\ Conversations
    /\ overlap \in BOOLEAN

ctxlocals ==
    <<messages_before, central_message, messages_after, all_messages,
      results, lookup>>

\* get_message_context(chat_id, message_id, context_size) is called.
GetMessageContext ==
    /\ cpc = "idle"
    /\ pc = "idle"
    /\ cresult.kind = "none"
    /\ message_id' \in PivotIds
    /\ context_size' \in 0..MaxContext
    /\ cpc' = "entity"
    /\ UNCHANGED <<conv, reply_to, overlap, ctxlocals, ccalls, cresult>>
    /\ UNCHANGED <<vars, evars, tvars, hvars>>

\* chat = await client.get_entity(chat_id)
CtxGetEntity ==
    /\ cpc = "entity"
    /\ ccalls' = Append(ccalls, [op |-> "get_entity", id |-> 0])
    /\ cpc' = "before"
    /\ UNCHANGED <<conv, reply_to, overlap, message_id, context_size,
                   ctxlocals, cresult>>
    /\ UNCHANGED <<vars, evars, tvars, hvars>>

\* messages_before = await client.get_messages(chat, limit=context_size,
\*                                             max_id=message_id)
FetchBefore ==
    /\ cpc = "before"
    /\ ccalls' = Append(ccalls, [op |-> "before", id |-> message_id])
    /\ messages_before' = RemoteBefore(conv, message_id, context_size, overlap)
    /\ cpc' = "central"
    /\ UNCHANGED <<conv, reply_to, overlap, message_id, context_size,
                   central_message, messages_after, all_messages, results,
                   lookup, cresult>>
    /\ UNCHANGED <<vars, evars, tvars, hvars>>

\* central_message = await client.get_messages(chat, ids=message_id), made a
\* list: [message], or [] for None.
FetchCentral ==
    /\ cpc = "central"
    /\ ccalls' = Append(ccalls, [op |-> "ids", id |-> message_id])
    /\ central_message' = RemoteById(conv, message_id)
    /\ cpc' = "after"
    /\ UNCHANGED <<conv, reply_to, overlap, message_id, context_size,
                   messages_before, messages_after, all_messages, results,
                   lookup, cresult>>
    /\ UNCHANGED <<vars, evars, tvars, hvars>>

\* messages_after = await client.get_messages(chat, limit=context_size,
\*                                            min_id=message_id, reverse=True)
FetchAfter ==
    /\ cpc = "after"
    /\ ccalls' = Append(ccalls, [op |-> "after", id |-> message_id])
    /\ messages_after' = RemoteAfter(conv, message_id, context_size, overlap)
    /\ cpc' = "check"
    /\ UNCHANGED <<conv, reply_to, overlap, message_id, context_size,
                   messages_before, central_message, all_messages, results,
                   lookup, cresult>>
    /\ UNCHANGED <<vars, evars, tvars, hvars>>

\* if not central_message: return "Message with ID ... not found in chat ..."
NotFound ==
    /\ cpc = "check"
    /\ CentralMissing(central_message)
    /\ cresult' = [kind |-> "not_found", named |-> <<message_id, ChatId>>,
                   window |-> <<>>, code |-> <<>>]
    /\ cpc' = "done"
    /\ UNCHANGED <<conv, reply_to, overlap, message_id, context_size,
                   ctxlocals, ccalls>>
    /\ UNCHANGED <<vars, evars, tvars, hvars>>

\* all_messages = before + central + after; all_messages.sort(key=id);
\* results = [header]
Combine ==
    /\ cpc = "check"
    /\ ~CentralMissing(central_message)
    /\ all_messages' = SortById(messages_before \o central_message \o messages_after)
    /\ results' = <<>>
    /\ cpc' = "loop"
    /\ UNCHANGED <<conv, reply_to, overlap, message_id, context_size,
                   messages_before, central_message, messages_after, lookup,
                   ccalls, cresult>>
    /\ UNCHANGED <<vars, evars, tvars, hvars>>

\* Loop body for a message that is not a reply.
AppendPlain ==
    /\ cpc = "loop"
    /\ all_messages # <<>>
    /\ ~IsReply(Head(all_messages))
    /\ results' = Append(results, Entry(Head(all_messages), "none"))
    /\ all_messages' = Tail(all_messages)
    /\ UNCHANGED <<conv, reply_to, overlap, cpc, message_id, context_size,
                   messages_before, central_message, messages_after, lookup,
                   ccalls, cresult>>
    /\ UNCHANGED <<vars, evars, tvars, hvars>>

\* Loop body for a reply whose lookup returns: the replied message (preview)
\* or None (reply_content stays empty).
AppendReply ==
    /\ cpc = "loop"
    /\ all_messages # <<>>
    /\ IsReply(Head(all_messages))
    /\ LET id == Head(all_messages)
           replied_msg == RemoteById(conv, reply_to[id])
       IN  /\ ccalls' = Append(ccalls, [op |-> "reply", id |-> reply_to[id]])
           /\ lookup' = Append(lookup,
                           [id |-> id,
                            outcome |-> IF replied_msg # <<>> THEN "message"
                                        ELSE "absent"])
           /\ results' = Append(results,
                            Entry(id, IF replied_msg # <<>> THEN "preview"
                                      ELSE "none"))
    /\ all_messages' = Tail(all_messages)
    /\ UNCHANGED <<conv, reply_to, overlap, cpc, message_id, context_size,
                   messages_before, central_message, messages_after, cresult>>
    /\ UNCHANGED <<vars, evars, tvars, hvars>>

\* Loop body for a reply whose lookup raises: except Exception gives the
\* placeholder.
AppendReplyFailed ==
    /\ cpc = "loop"
    /\ all_messages # <<>>
    /\ IsReply(Head(all_messages))
    /\ LET id == Head(all_messages)
       IN  /\ ccalls' = Append(ccalls, [op |-> "reply", id |-> reply_to[id]])
           /\ lookup' = Append(lookup, [id |-> id, outcome |-> "raised"])
           /\ results' = Append(results, Entry(id, "placeholder"))
    /\ all_messages' = Tail(all_messages)
    /\ UNCHANGED <<conv, reply_to, overlap, cpc, message_id, context_size,
                   messages_before, central_message, messages_after, cresult>>
    /\ UNCHANGED <<vars, evars, tvars, hvars>>

\* return "\n".join(results)
CtxReturn ==
    /\ cpc = "loop"
    /\ all_messages = <<>>
    /\ cresult' = [kind |-> "window", named |-> <<message_id, ChatId>>,
                   window |-> results, code |-> <<>>]
    /\ cpc' = "done"
    /\ UNCHANGED <<conv, reply_to, overlap, message_id, context_size,
                   ctxlocals, ccalls>>
    /\ UNCHANGED <<vars, evars, tvars, hvars>>

\* One of the awaited calls outside the reply lookup raises:
\* return log_and_format_error("get_message_context", e, ...)
CtxExcept ==
    /\ cpc \in {"entity", "before", "central", "after"}
    /\ ccalls' = Append(ccalls, [op |-> "raised", id |-> 0])
    /\ errlog' = Append(errlog, ErrorRecord(GetMessageContextName))
    /\ cresult' = [kind |-> "error", named |-> <<>>, window |-> <<>>,
                   code |-> ErrorCodes[GetMessageContextName][None][hashseed]]
    /\ cpc' = "done"
    /\ UNCHANGED <<conv, reply_to, overlap, message_id, context_size, ctxlocals>>
    /\ UNCHANGED <<hashseed, run, returned>>
    /\ UNCHANGED <<vars, tvars, hvars>>

CtxNext ==
    \/ GetMessageContext
    \/ CtxGetEntity
    \/ FetchBefore
    \/ FetchCentral
    \/ FetchAfter
    \/ NotFound
    \/ Combine
    \/ AppendPlain
    \/ AppendReply
    \/ AppendReplyFailed
    \/ CtxReturn
    \/ CtxExcept

CtxSpec == CtxInit /\ [][CtxNext]_<<cvars, evars>>

CtxOverlapSpec == CtxOverlapInit /\ [][CtxNext]_<<cvars, evars>>

\* ------------------------------------------- both message-reading tools
\* A server that serves list_messages and get_message_context calls, over
\* one of the two long conversations or over a conversation with replies.
CallsInit ==
    \/ /\ Init
       /\ log \in {ScenarioLog, BusyLog}
    \/ CtxInit

CallsNext ==
    \/ Next
    \/ CtxNext

CallsSpec == CallsInit /\ [][CallsNext]_<<vars, cvars, evars>>

\* ------------------------------------------------------ claim vocabulary
\* The filter as the caller states it, read from the raw arguments.
HasSearch == search_query # ""

HasFrom == from_date # None

HasTo == to_date # None

WellFormed(s) == s = None \/ ValidDate(s)

Malformed(s) == s # None /\ ~ValidDate(s)

FromDay == DayOrdinal(from_date)

ToDay == DayOrdinal(to_date)

\* Both dates parse and, when both are present, fromDate <= toDate.
ValidRange ==
    /\ WellFormed(from_date)
    /\ WellFormed(to_date)
    /\ (HasFrom /\ HasTo) => FromDay <= ToDay

\* Both dates are present, parse, and fromDate > toDate.
EmptyRange ==
    /\ HasFrom /\ ValidDate(from_date)
    /\ HasTo /\ ValidDate(to_date)
    /\ FromDay > ToDay

\* The UTC calendar day an instant falls in.
DayOf(t) == t \div TicksPerDay

\* fromDate <= timestamp <= toDate, for each bound that is present.
InBounds(i) ==
    /\ HasFrom => DayOf(log[i].date) >= FromDay
    /\ HasTo => DayOf(log[i].date) <= ToDay

\* The filter predicate: text match and both date bounds.
Satisfies(i) == (HasSearch => log[i].match) /\ InBounds(i)

\* M in ascending id order.
Selected == SelectSeq(Ids(log), Satisfies)

\* The output order of the strategy the filter selects: oldest-first exactly
\* for the forward scan.
OldestFirst == ~HasSearch /\ HasFrom

ExpectedResult ==
    Take(IF OldestFirst THEN Selected ELSE Reverse(Selected), limit)

Returned == pc = "done" /\ result.kind \in {"lines", "no_messages"}

Descending(s) == \A k \in 1..(Len(s) - 1) : s[k] > s[k + 1]

Ascending(s) == \A k \in 1..(Len(s) - 1) : s[k] < s[k + 1]

\* ----------------------------------------------------------------- C1
\* C1: for a valid range fromDate <= toDate (either bound may be absent) and
\* limit >= 1, every message accepted or returned by list_messages lies
\* within each bound that is present, whatever strategy ran.
C1_ResultWithinBounds ==
    (limit >= 1 /\ ValidRange) =>
        /\ \A k \in 1..Len(messages) : InBounds(messages[k])
        /\ \A k \in 1..Len(result.ids) : InBounds(result.ids[k])

\* A search with both bounds returned messages while the log holds matching
\* messages on either side of the range.
C1_Witness ==
    /\ Returned /\ result.kind = "lines"
    /\ HasSearch /\ HasFrom /\ HasTo /\ limit >= 1
    /\ \E i \in 1..Len(log) : log[i].match /\ DayOf(log[i].date) > ToDay
    /\ \E i \in 1..Len(log) : log[i].match /\ DayOf(log[i].date) < FromDay

\* ----------------------------------------------------------------- C2
\* C2: for every filter and limit >= 1 the returned sequence is exactly the
\* first min(limit, |M|) elements of M, the messages satisfying the filter,
\* in the output order of the selected strategy.
C2_ResultIsPrefixOfM ==
    (Returned /\ limit >= 1) => result.ids = ExpectedResult

\* A search returned a full result although more messages satisfy the filter
\* and some messages of the log do not.
C2_Witness ==
    /\ Returned /\ result.kind = "lines"
    /\ HasSearch /\ HasTo /\ limit >= 1
    /\ Len(Selected) > limit
    /\ \E i \in 1..Len(log) : log[i].match /\ ~InBounds(i)

\* ----------------------------------------------------------------- C3
\* C3: for limit >= 1 never more than limit messages are accepted or
\* returned, and the step in which the count reaches limit leaves the loop:
\* nothing stays buffered and no request is sent in that step.
C3_StopsAtLimit ==
    [][/\ limit' >= 1 =>
            /\ Len(messages') <= limit'
            /\ Len(result'.ids) <= limit'
       /\ (/\ pc \in Scanning
           /\ limit >= 1
           /\ Len(messages) < limit
           /\ Len(messages') = limit) =>
            /\ pc' = "format"
            /\ buffer' = <<>>
            /\ calls' = calls]_vars

\* A scan left its loop at the limit while the remote still had messages.
C3_Witness ==
    /\ pc = "format"
    /\ limit >= 1
    /\ Len(messages) = limit
    /\ Len(calls) >= 2 /\ calls[2].op = "iter_messages"
    /\ pos < Len(feed)

\* ----------------------------------------------------------------- C4
\* The strategy the decision table selects for the caller's filter.
PlannedStrategy ==
    IF HasSearch THEN "search_scan"
    ELSE IF HasFrom THEN "forward_scan"
    ELSE IF HasTo THEN "backward_scan"
    ELSE "plain_fetch"

\* The shape of the message requests of each strategy.
RequestOf(st, r) ==
    CASE st = "search_scan" ->
            r.op = "iter_messages" /\ r.search = search_query
            /\ r.offset_date = None /\ ~r.reverse
      [] st = "forward_scan" ->
            r.op = "iter_messages" /\ r.search = ""
            /\ r.offset_date # None /\ r.reverse
      [] st = "backward_scan" ->
            r.op = "iter_messages" /\ r.search = ""
            /\ r.offset_date # None /\ ~r.reverse
      [] OTHER ->
            r.op = "get_messages" /\ r.search = "" /\ r.offset_date = None

\* C4: one strategy per call, by priority search > fromDate > toDate > plain:
\* the coroutine is only ever in the branch of the planned strategy, every
\* message request of the call is that strategy's request, and no request
\* carries both a text search and a date cursor.
C4_StrategyPriority ==
    /\ pc \in Scanning \cup {"plain_fetch"} => pc = PlannedStrategy
    /\ \A k \in 1..Len(calls) :
          /\ k = 1 => calls[k].op = "get_entity"
          /\ k > 1 => RequestOf(PlannedStrategy, calls[k])
          /\ ~(calls[k].search # "" /\ calls[k].offset_date # None)

\* A search with both date bounds fetched pages.
C4_Witness ==
    /\ Returned
    /\ HasSearch /\ HasFrom /\ HasTo
    /\ Len(calls) >= 2

\* ----------------------------------------------------------------- C5
\* A step of the search loop over the buffered candidate m.
SearchLoopStep == pc = "search_scan" /\ buffer # <<>>

\* C5: in SearchScan a candidate newer than toDate is skipped and the scan
\* goes on with the next one; otherwise a candidate older than fromDate ends
\* the scan unaccepted; any other candidate is accepted.  The returned
\* messages are newest-first, and over ids 1..10 (one per day) with matches
\* {2,5,9} and toDate = day 6 the result is [5,2].
C5_SearchScanSteps ==
    [][/\ SearchLoopStep =>
            LET m == log[Head(buffer)] IN
            IF HasTo /\ DayOf(m.date) > ToDay
            THEN /\ messages' = messages
                 /\ pc' = "search_scan"
                 /\ buffer' = Tail(buffer)
            ELSE IF HasFrom /\ DayOf(m.date) < FromDay
            THEN /\ messages' = messages
                 /\ pc' = "format"
            ELSE messages' = Append(messages, m.id)
       /\ (Returned' /\ HasSearch') => Descending(result'.ids)
       /\ (/\ Returned'
           /\ log' = ScenarioLog
           /\ search_query' = Query
           /\ from_date' = None
           /\ to_date' = <<1, 6>>
           /\ limit' = 10) => result'.ids = <<5, 2>>]_vars

\* Scenario B has returned [5,2]: id 9 was skipped, ids 5 and 2 accepted.
C5_Witness ==
    /\ Returned
    /\ log = ScenarioLog
    /\ search_query = Query /\ from_date = None /\ to_date = <<1, 6>>
    /\ limit = 10
    /\ feed = <<9, 5, 2>>
    /\ result.ids = <<5, 2>>

\* ----------------------------------------------------------------- C6
ForwardLoopStep == pc = "forward_scan" /\ buffer # <<>>

\* C6: ForwardBoundedScan asks the remote for a forward iteration from the
\* first instant of fromDate, skips a candidate older than fromDate, ends at
\* the first candidate newer than toDate, and accepts the others; the result
\* is oldest-first, and over ids 1..10 (one per day) with fromDate = day 3,
\* toDate = day 6, limit = 10 it is [3,4,5,6].
C6_ForwardScanSteps ==
    [][/\ ForwardLoopStep =>
            LET m == log[Head(buffer)] IN
            IF HasTo /\ DayOf(m.date) > ToDay
            THEN /\ messages' = messages
                 /\ pc' = "format"
            ELSE IF DayOf(m.date) < FromDay
            THEN /\ messages' = messages
                 /\ pc' = "forward_scan"
                 /\ buffer' = Tail(buffer)
            ELSE messages' = Append(messages, m.id)
       /\ (pc = "forward_scan" /\ Len(calls') > Len(calls)) =>
            /\ calls'[Len(calls')].reverse
            /\ calls'[Len(calls')].offset_date = <<DayStart(FromDay)>>
       /\ (Returned' /\ ~HasSearch' /\ HasFrom') => Ascending(result'.ids)
       /\ (/\ Returned'
           /\ log' = ScenarioLog
           /\ search_query' = ""
           /\ from_date' = <<1, 3>>
           /\ to_date' = <<1, 6>>
           /\ limit' = 10) => result'.ids = <<3, 4, 5, 6>>]_vars

\* Scenario A has returned [3,4,5,6] from an iterator that started one
\* message early (id 2, skipped) and met id 7 (newer than toDate).
C6_Witness ==
    /\ Returned
    /\ log = ScenarioLog
    /\ search_query = "" /\ from_date = <<1, 3>> /\ to_date = <<1, 6>>
    /\ limit = 10
    /\ feed[1] = 2
    /\ result.ids = <<3, 4, 5, 6>>

\* ----------------------------------------------------------------- C7
OnlyTo == ~HasSearch /\ ~HasFrom /\ HasTo

\* The normalized toDate: the last instant of that calendar day.
NormalizedTo == DayStart(ToDay + 1) - 1

\* Ids stamped at or before the normalized toDate, newest first.
UpToNormalizedTo ==
    Reverse(SelectSeq(Ids(log), LAMBDA i : log[i].date <= NormalizedTo))

\* C7: BackwardBoundedScan (only toDate) sends the backward cursor
\* normalized toDate + 1 tick, accepts every candidate it is given, and for
\* limit >= 1 returns, newest first, the up-to-limit newest messages stamped
\* at or before the normalized toDate (that instant included).
C7_BackwardScan ==
    [][/\ (pc = "backward_scan" /\ Len(calls') > Len(calls)) =>
            /\ ~calls'[Len(calls')].reverse
            /\ calls'[Len(calls')].offset_date = <<NormalizedTo + 1>>
       /\ (pc = "backward_scan" /\ buffer # <<>>) =>
            messages' = Append(messages, Head(buffer))
       /\ (Returned' /\ OnlyTo' /\ limit' >= 1) =>
            result'.ids = Take(UpToNormalizedTo', limit')]_vars

\* A backward scan returned first a message stamped exactly at the
\* normalized toDate while the log holds a newer message.
C7_Witness ==
    /\ Returned /\ OnlyTo /\ limit >= 1
    /\ result.kind = "lines"
    /\ log[result.ids[1]].date = NormalizedTo
    /\ \E i \in 1..Len(log) : log[i].date = NormalizedTo + 1

\* ----------------------------------------------------------------- C8
OnlyLimit == ~HasSearch /\ ~HasFrom /\ ~HasTo

\* The newest n ids of the log, newest first.
Newest(n) == [k \in 1..Min(n, Len(log)) |-> Len(log) - k + 1]

\* C8: with only limit set (limit >= 1) the call never iterates: besides
\* entity resolution it sends one get_messages request carrying limit, and
\* returns exactly the min(limit, available) newest messages, newest first.
C8_PlainFetch ==
    (pc # "idle" /\ OnlyLimit /\ limit >= 1) =>
        /\ pc \notin Scanning
        /\ pos = 0 /\ buffer = <<>>
        /\ Len(calls) <= 2
        /\ Len(calls) = 2 =>
              /\ calls[2].op = "get_messages"
              /\ calls[2].limit = <<limit>>
        /\ Returned =>
              /\ Len(calls) = 2
              /\ result.ids = Newest(limit)

\* A plain fetch returned limit messages of a longer conversation.
C8_Witness ==
    /\ Returned /\ OnlyLimit
    /\ limit >= 1
    /\ Len(log) > limit
    /\ Len(result.ids) = limit
    /\ result.ids[1] = Len(log)

\* ----------------------------------------------------------------- C9
\* C9: a call given a malformed fromDate or toDate ends in a validation
\* failure without any remote call having been issued.
C9_NoRemoteCallOnBadDate ==
    (pc = "done" /\ (Malformed(from_date) \/ Malformed(to_date))) =>
        /\ result.kind \in {"invalid_from", "invalid_to"}
        /\ calls = <<>>

\* ----------------------------------------------------------------- C10
\* C10: a call whose dates are well-formed with fromDate > toDate returns an
\* empty result and issues no remote call, with or without a search query
\* (stated of the calls in which no remote call raises).
C10_EmptyRangeShortCircuits ==
    (Returned /\ EmptyRange /\ limit >= 1) =>
        /\ result.kind = "no_messages"
        /\ calls = <<>>

\* ----------------------------------------------------------------- C11
\* C11: a call with limit <= 0 returns an empty result and issues no remote
\* call, whatever the filter (stated of the calls in which no remote call
\* raises and the dates are well-formed).
C11_NonPositiveLimitShortCircuits ==
    (Returned /\ limit <= 0) =>
        /\ result.ids = <<>>
        /\ calls = <<>>

\* ----------------------------------------------------------------- C16
Ceil(a, b) == (a + b - 1) \div b

\* Page requests of the current call (every request after get_entity).
PageFetches == Cardinality({k \in 1..Len(calls) : calls[k].op = "iter_messages"})

AllMatch == \A i \in 1..Len(log) : log[i].match

\* Messages stamped after the toDate day (none when toDate is absent).
NewerThanTo ==
    IF HasTo /\ ValidDate(to_date)
    THEN Cardinality({i \in 1..Len(log) : DayOf(log[i].date) > ToDay})
    ELSE 0

SearchCall == pc # "idle" /\ HasSearch /\ limit >= 1

\* C16 as stated: when every message matches, SearchScan issues at most
\* ceil(limit / pageSize) + 1 page fetches, whatever the date bounds.
C16_SearchFetchBound ==
    (SearchCall /\ AllMatch) => PageFetches <= Ceil(limit, PageSize) + 1

\* C16 amended: when every message matches, SearchScan issues at most
\* ceil((limit + k) / pageSize) + 1 page fetches, k being the number of
\* messages newer than toDate (0 without toDate): those are fetched and
\* skipped before any message can be accepted.
C16_SearchFetchBoundAmended ==
    (SearchCall /\ AllMatch) =>
        PageFetches <= Ceil(limit + NewerThanTo, PageSize) + 1

\* A search returned after more page fetches than ceil(limit/pageSize) + 1,
\* the messages newer than toDate having been paged through.
C16_Witness ==
    /\ Returned /\ SearchCall /\ AllMatch
    /\ NewerThanTo > 0
    /\ result.kind = "lines"
    /\ PageFetches > Ceil(limit, PageSize) + 1

\* ----------------------------------------------------------------- C17
\* The loop is looking at a candidate that triggers its terminal bound
\* condition: in SearchScan one that is not skipped as newer than toDate and
\* is older than fromDate, in ForwardBoundedScan one newer than toDate.
SeesTerminalBound ==
    \/ /\ SearchLoopStep
       /\ ~(HasTo /\ DayOf(log[Head(buffer)].date) > ToDay)
       /\ HasFrom
       /\ DayOf(log[Head(buffer)].date) < FromDay
    \/ /\ ForwardLoopStep
       /\ HasTo
       /\ DayOf(log[Head(buffer)].date) > ToDay

\* The call is past its retrieval loop.
PastLoop == pc \in {"format", "done"}

\* C17: the step that brings the accepted count to limit, and the step in
\* which a loop's terminal bound condition triggers (SearchScan: timestamp
\* before fromDate; ForwardBoundedScan: timestamp after toDate), end the
\* retrieval without a request, and from then on the call issues no remote
\* call.
C17_NoCallAfterTermination ==
    [][/\ SeesTerminalBound => (pc' = "format" /\ calls' = calls)
       /\ (/\ pc \in Scanning
           /\ limit >= 1
           /\ Len(messages) < limit
           /\ Len(messages') = limit) => (pc' = "format" /\ calls' = calls)
       /\ PastLoop => (calls' = calls \/ pc' = "idle")]_vars


\* A search stopped at a message older than fromDate, short of its limit and
\* with messages left on the remote.
C17_Witness ==
    /\ pc = "format"
    /\ HasSearch /\ HasFrom
    /\ limit >= 1
    /\ messages # <<>>
    /\ Len(messages) < limit
    /\ pos < Len(feed)

\* ----------------------------------------------------------------- C18
\* First instant of the fromDate day and last instant of the toDate day.
FromInstant == DayStart(FromDay)

ToLastInstant == DayStart(ToDay + 1) - 1

\* The message matches the text filter and lies between those instants.
Covered(i) ==
    /\ HasSearch => log[i].match
    /\ HasFrom => log[i].date >= FromInstant
    /\ HasTo => log[i].date <= ToLastInstant

InResult(i) == \E k \in 1..Len(result.ids) : result.ids[k] = i

\* C18: date bounds cover whole calendar days: for a valid range and
\* limit >= 1 every returned message is stamped from the first instant of
\* fromDate to the last instant of toDate, and a result shorter than limit
\* holds every such matching message, so the last instant of toDate is
\* accepted and the next one rejected, the first instant of fromDate is
\* accepted and the one before rejected; with fromDate = toDate the result
\* has exactly the matching messages of that day, up to limit.
C18_WholeDaysInclusive ==
    (Returned /\ limit >= 1 /\ ValidRange) =>
        /\ \A k \in 1..Len(result.ids) : Covered(result.ids[k])
        /\ Len(result.ids) < limit =>
              \A i \in 1..Len(log) : Covered(i) => InResult(i)
        /\ (HasFrom /\ HasTo /\ from_date = to_date) =>
              Len(result.ids) =
                  Min(limit, Cardinality({i \in 1..Len(log) : Covered(i)}))

\* With fromDate = toDate a message stamped at the last instant of the day
\* was returned and one stamped at the next instant was not.
C18_Witness ==
    /\ Returned /\ limit >= 1
    /\ HasFrom /\ HasTo /\ from_date = to_date /\ ValidDate(to_date)
    /\ \E i \in 1..Len(log) : log[i].date = ToLastInstant /\ InResult(i)
    /\ \E i \in 1..Len(log) : log[i].date = ToLastInstant + 1 /\ ~InResult(i)

\* ----------------------------------------------------------------- C19
\* C19: any two invocations of log_and_format_error with the same operation
\* identifier and the same category return the same error code, also when
\* they happen in different process runs.
C19_CodeIsStable ==
    \A i \in 1..Len(returned) : \A j \in 1..Len(returned) :
        (/\ returned[i].function_name = returned[j].function_name
         /\ returned[i].prefix = returned[j].prefix)
            => returned[i].code = returned[j].code

\* ----------------------------------------------------------------- C20
\* The category name occurs in the identifier, compared case-insensitively.
Occurs(k, fn) ==
    \E off \in 0..(Len(fn) - Len(CategoryName[k])) :
        \A n \in 1..Len(CategoryName[k]) :
            LowerChar(fn[off + n]) = LowerChar(CategoryName[k][n])

\* The category the resolution rule gives.
ResolvedCategory(fn, prefix) ==
    IF prefix # None THEN prefix[1]
    ELSE IF \E k \in 1..Len(ErrorCategory) : Occurs(k, fn)
    THEN ErrorCategory[CHOOSE k \in 1..Len(ErrorCategory) :
                          /\ Occurs(k, fn)
                          /\ \A j \in 1..(k - 1) : ~Occurs(j, fn)]
    ELSE "GEN"

\* The resolution rule over every call, computed once.
Resolved ==
    [fn \in FunctionNames |->
        [prefix \in Prefixes |-> ResolvedCategory(fn, prefix)]]

\* C20: the category of a returned code is the explicit category when one is
\* given; otherwise the first of CHAT, MSG, CONTACT, GROUP, MEDIA, PROFILE,
\* AUTH, ADMIN whose name is a case-insensitive substring of the identifier
\* (CHAT for an identifier containing both "contact" and "chat"), and GEN
\* when none is.
C20_CategoryResolution ==
    /\ ErrorCategory =
          <<"CHAT", "MSG", "CONTACT", "GROUP", "MEDIA", "PROFILE", "AUTH", "ADMIN">>
    /\ \A i \in 1..Len(returned) :
          LET r == returned[i] IN
          /\ r.code.category = Resolved[r.function_name][r.prefix]
          /\ (r.function_name = GetDirectChatByContact /\ r.prefix = None)
                => r.code.category = "CHAT"
          /\ (r.function_name = MixedCaseGetChat /\ r.prefix = None)
                => r.code.category = "CHAT"
          /\ (r.function_name = ListMessagesName /\ r.prefix = None)
                => r.code.category = "GEN"

\* Codes were returned for the identifier holding both "contact" and "chat"
\* without a category and for an identifier with an explicit category.
C20_Witness ==
    /\ \E i \in 1..Len(returned) :
          /\ returned[i].function_name = GetDirectChatByContact
          /\ returned[i].prefix = None
          /\ returned[i].code.category = "CHAT"
    /\ \E i \in 1..Len(returned) :
          /\ returned[i].function_name = GetChats
          /\ returned[i].prefix = <<"AUTH">>
          /\ returned[i].code.category = "AUTH"

\* ----------------------------------------------------------------- C12
\* The ids of the returned window, in order.
WindowIds == [k \in 1..Len(cresult.window) |-> cresult.window[k].id]

\* The positions of the window that carry the pivot flag.
Flagged == {k \in 1..Len(cresult.window) : cresult.window[k].highlight}

StrictlyAscending(ids) ==
    \A k \in 1..(Len(ids) - 1) : ids[k] < ids[k + 1]

\* The call ran to its end without a raise outside the reply lookups.
CtxCompleted == cpc = "done" /\ cresult.kind # "error"

\* C12: for a pivot id that exists and contextSize N >= 0 the operation
\* produces a window of at most 2N+1 messages, strictly ascending by id, with
\* exactly one flagged entry, the one whose id is the pivot id; pivot 5 with
\* N = 2 over ids 1..10 gives the window [3,4,5,6,7].
C12_WindowShape ==
    (CtxCompleted /\ message_id \in conv) =>
        /\ cresult.kind = "window"
        /\ Len(cresult.window) <= 2 * context_size + 1
        /\ StrictlyAscending(WindowIds)
        /\ Cardinality(Flagged) = 1
        /\ \A k \in Flagged : WindowIds[k] = message_id
        /\ (conv = 1..10 /\ message_id = 5 /\ context_size = 2)
              => WindowIds = <<3, 4, 5, 6, 7>>

\* Scenario C has been served.
C12_Witness ==
    /\ cresult.kind = "window"
    /\ conv = 1..10
    /\ message_id = 5
    /\ context_size = 2
    /\ WindowIds = <<3, 4, 5, 6, 7>>
    /\ Flagged = {3}

\* ----------------------------------------------------------------- C13
\* Some fetch returned a message that another fetch returned too.
FetchesOverlap ==
    \E i \in 1..Len(messages_before \o central_message \o messages_after) :
        \E j \in 1..Len(messages_before \o central_message \o messages_after) :
            /\ i # j
            /\ (messages_before \o central_message \o messages_after)[i]
                 = (messages_before \o central_message \o messages_after)[j]

\* C13: when the before, pivot and after fetches return overlapping messages,
\* each id appears at most once in the assembled window and only one entry
\* carries the pivot flag.
C13_DeduplicatedById ==
    (cresult.kind = "window" /\ FetchesOverlap) =>
        /\ \A i \in 1..Len(WindowIds) : \A j \in 1..Len(WindowIds) :
              WindowIds[i] = WindowIds[j] => i = j
        /\ Cardinality(Flagged) <= 1

\* ----------------------------------------------------------------- C14
\* The lookups made for the replies among the fetched messages.
Fetched == SortById(messages_before \o central_message \o messages_after)

\* C14: when the message a window message replies to cannot be obtained (the
\* lookup raises, or returns no message) the complete window is still
\* returned and that entry shows the 'original message not found'
\* placeholder; no lookup outcome gives an error or drops an entry.
C14_PlaceholderOnFailedLookup ==
    /\ (cpc = "done" /\ lookup # <<>>) =>
          /\ cresult.kind = "window"
          /\ WindowIds = Fetched
    /\ cresult.kind = "window" =>
          \A k \in 1..Len(cresult.window) :
              (/\ IsReply(cresult.window[k].id)
               /\ (\/ reply_to[cresult.window[k].id] \notin conv
                   \/ \E n \in 1..Len(lookup) :
                         /\ lookup[n].id = cresult.window[k].id
                         /\ lookup[n].outcome = "raised"))
                  => cresult.window[k].reply = "placeholder"

\* ----------------------------------------------------------------- C15
\* C15: when the pivot id does not exist in the conversation the operation
\* ends with the not-found outcome naming the pivot id and the chat, returns
\* no window entries even if the before/after fetches returned messages, and
\* issues no reply lookup.
C15_PivotNotFound ==
    (CtxCompleted /\ message_id \notin conv) =>
        /\ cresult.kind = "not_found"
        /\ cresult.named = <<message_id, ChatId>>
        /\ cresult.window = <<>>
        /\ results = <<>>
        /\ lookup = <<>>
        /\ \A n \in 1..Len(ccalls) : ccalls[n].op # "reply"

\* The pivot is absent although its neighbours were fetched, one of them a
\* reply.
C15_Witness ==
    /\ cresult.kind = "not_found"
    /\ messages_before # <<>>
    /\ messages_after # <<>>
    /\ \E i \in 1..Len(messages_after) : IsReply(messages_after[i])

\* ----------------------------------------------------------------- C21
\* The value of a sequence of decimal digits.
RECURSIVE DigitsValue(_)
DigitsValue(d) ==
    IF d = <<>> THEN 0
    ELSE 10 * DigitsValue(SubSeq(d, 1, Len(d) - 1)) + d[Len(d)]

\* The categories a code can carry.
CategoryStrings == {ErrorCategory[k] : k \in 1..Len(ErrorCategory)} \cup {"GEN"}

\* C21: for every identifier and every hash value (positive, zero or
\* negative) the code has the form <CATEGORY>-ERR-<NNN>: NNN is exactly
\* three decimal digits, zero-padded, and its value is in 0..999 and equals
\* the absolute hash modulo 1000.
C21_CodeFormat ==
    error_code # <<>> =>
        /\ error_code.category \in CategoryStrings
        /\ Len(error_code.number) = 3
        /\ \A k \in 1..3 : error_code.number[k] \in 0..9
        /\ DigitsValue(error_code.number) \in 0..999
        /\ DigitsValue(error_code.number)
              = (IF hash_value < 0 THEN 0 - hash_value ELSE hash_value) % 1000

\* A code was composed from a negative hash beyond -1000 whose number needs
\* zero padding.
C21_Witness ==
    /\ hash_value = 0 - 1001
    /\ error_code # <<>>
    /\ error_code.number = <<0, 0, 1>>

\* ----------------------------------------------------------------- C22
\* A tool has returned its string to the caller.
ToolDone == tpc = "done" /\ treturn # <<>>

\* C22: no exception detail reaches the caller: whatever call fails inside a
\* tool, the returned string holds no text of the exception; that text is
\* only in the diagnostic log.
C22_NoExceptionDetailReturned ==
    ToolDone => ~treturn.detail

\* ----------------------------------------------------------------- C24
\* C24: the diagnostic log receives exactly one ERROR record per failed
\* call: a call that ends in an error string has added exactly one record
\* (the log is empty when the call starts), and every record is an ERROR
\* record.
C24_OneRecordPerFailure ==
    /\ \A n \in 1..Len(errlog) : errlog[n].level = "ERROR"
    /\ (ToolDone /\ treturn.kind = "error") => Len(errlog) = 1

\* ----------------------------------------------------------------- C27
\* s is a prefix of t.
IsPrefix(s, t) == Len(s) <= Len(t) /\ s = SubSeq(t, 1, Len(s))

\* The remote calls of get_invite_link in the claimed order.
InviteLinkOrder ==
    <<"get_entity", "ExportChatInviteRequest", "export_chat_invite_link",
      "GetFullChatRequest">>

\* C27: get_invite_link tries ExportChatInviteRequest, export_chat_invite_link
\* and GetFullChatRequest in this order; a success returns at once and no
\* later alternative is invoked; when every alternative has failed the fixed
\* 'Could not retrieve invite link' text is returned without an error code;
\* only a failure of the initial entity resolution yields an error code.
C27_InviteLinkFallback ==
    [][tool' = GetInviteLink =>
          /\ IsPrefix(tcalls', InviteLinkOrder)
          /\ treturn # <<>> => tcalls' = tcalls
          /\ (treturn = <<>> /\ treturn' # <<>>) =>
                /\ treturn'.kind = "error" <=>
                      (tpc = "entity" /\ tcalls' = <<"get_entity">>)
                /\ treturn'.kind = "error" <=> treturn'.code # <<>>
                /\ treturn'.kind = "value" =>
                      /\ Len(tcalls') = Len(tcalls) + 1
                      /\ Len(tcalls') >= 2
                /\ treturn'.text = "Could not retrieve invite link for this chat." =>
                      /\ treturn'.code = <<>>
                      /\ IsPrefix(SubSeq(InviteLinkOrder, 1, 3), tcalls')
                      /\ targs[1] => tcalls' = InviteLinkOrder
    ]_<<tvars, evars>>

\* Both exports failed and the third alternative returned the link; in
\* another call all three failed.
C27_Witness ==
    /\ tool = GetInviteLink
    /\ ToolDone
    /\ tcalls = InviteLinkOrder
    /\ treturn.kind = "value"

ListMessagesFirstRequest(lim, q, fd, td) ==
    LET lo == IF fd = None THEN None ELSE <<ParseDate(fd)>>
        hi == IF td = None THEN None ELSE <<EndOfDay(ParseDate(td))>>
    IN  StrategyRequest(Strategy(q, lo, hi), q, lo, hi, lim)

\* C28: messages_to_voicebot mirrors list_messages: where a voicebot client
\* is available, for the same arguments it issues the same remote message
\* requests and selects the same messages as list_messages (which, for
\* well-formed dates, always issues a first message request after resolving
\* the entity).
C28_MirrorsListMessages ==
    (/\ voice_importable
     /\ tool = MessagesToVoicebot
     /\ ToolDone
     /\ treturn.kind # "error"
     /\ WellFormed(targs[3])
     /\ WellFormed(targs[4])) =>
        /\ treturn.text # "VoicebotClient is not available."
        /\ Len(tcalls) >= 2
        /\ tcalls[2] = ListMessagesFirstRequest(targs[1], targs[2], targs[3], targs[4])

\* ----------------------------------------------------------------- C23
\* The code of the two operations' own names (neither holds a category
\* name), for every hash key, computed once.
OwnCodes ==
    [fn \in {ListMessagesName, GetMessageContextName} |->
        [key \in Seeds |->
            [category |-> "GEN",
             number |-> Format03d(Abs(StrHash(fn, key)) % 1000)]]]

\* C23: whenever a remote call inside list_messages or get_message_context
\* raises, the operation does not propagate the exception: it returns the
\* error string carrying the code of its own operation name, after logging
\* under that name, and returns no partial message result.
C23_ErrorsCaughtAtBoundary ==
    [][/\ pc = "except" =>
             /\ pc' = "done"
             /\ result'.kind = "error"
             /\ result'.ids = <<>>
             /\ result'.code = OwnCodes[ListMessagesName][hashseed]
             /\ errlog' = Append(errlog, ErrorRecord(ListMessagesName))
       /\ (Len(ccalls') > Len(ccalls) /\ ccalls'[Len(ccalls')].op = "raised") =>
             /\ cpc' = "done"
             /\ cresult'.kind = "error"
             /\ cresult'.window = <<>>
             /\ cresult'.code = OwnCodes[GetMessageContextName][hashseed]
             /\ errlog' = Append(errlog, ErrorRecord(GetMessageContextName))
    ]_<<vars, cvars, evars>>

\* A page fetch raised after messages had been collected, and the call
\* returned the error string.
C23_Witness ==
    /\ pc = "done"
    /\ result.kind = "error"
    /\ messages # <<>>
    /\ Len(calls) >= 3

\* ----------------------------------------------------------------- C26
\* C26: within one call remote requests are issued one at a time: every step
\* issues at most one request; a scan asks for the next page only when all
\* messages of the previous page have been processed, and processes them in
\* arrival order; get_message_context issues a reply lookup only for the next
\* message in order, after the previous ones have been written.
C26_SequentialRequests ==
    [][/\ Len(calls') > Len(calls) =>
             /\ Len(calls') = Len(calls) + 1
             /\ buffer = <<>>
       /\ (buffer # <<>> /\ buffer' # buffer) =>
             /\ buffer' \in {Tail(buffer), <<>>}
             /\ messages' \in {messages, Append(messages, Head(buffer))}
       /\ Len(ccalls') > Len(ccalls) =>
             /\ Len(ccalls') = Len(ccalls) + 1
             /\ ccalls'[Len(ccalls')].op = "reply" =>
                   /\ all_messages # <<>>
                   /\ ccalls'[Len(ccalls')].id = reply_to[Head(all_messages)]
                   /\ Len(results') = Len(results) + 1
                   /\ results'[Len(results')].id = Head(all_messages)
    ]_<<vars, cvars, evars>>

\* A second page was requested after the first one had been processed.
C26_Witness ==
    /\ pc \in Scanning
    /\ Len(calls) >= 3
    /\ pos > PageSize
    /\ messages # <<>>


\* ----------------------------------------------------------------- C25
\* C25: the step on which a call given a malformed fromDate or toDate comes to
\* its end adds no record to the diagnostic log and returns a validation
\* message, never a code; the message is the fromDate one whenever fromDate
\* is malformed.
C25_ValidationFailureIsExpected ==
    [][(/\ pc # "done"
        /\ pc' = "done"
        /\ (Malformed(from_date) \/ Malformed(to_date))) =>
            /\ errlog' = errlog
            /\ result'.kind \in {"invalid_from", "invalid_to"}
            /\ result'.code = None
            /\ (Malformed(from_date) => result'.kind = "invalid_from")]_<<vars, evars>>


\* ----------------------------------------------------------------- C30
\* Messages the running loop has taken from its iterator so far.
Consumed == pos - Len(buffer)

\* No id occurs twice in s.
Injective(s) == \A i, j \in 1..Len(s) : s[i] = s[j] => i = j

\* The loop stands between two messages of an iterator over the log: what it
\* has taken and what it has kept are bounded by what the iterator holds.
LoopWithinFeed ==
    pc \in Scanning =>
        /\ Injective(feed)
        /\ Len(feed) <= Len(log)
        /\ 0 <= Consumed
        /\ pos <= Len(feed)
        /\ buffer = SubSeq(feed, Consumed + 1, pos)
        /\ Len(messages) <= Consumed

\* One pass of a loop body takes the next message of the iterator, and no
\* other step of the loop takes or gives back one.
LoopConsumesOnce ==
    pc \in Scanning =>
        IF buffer # <<>>
        THEN /\ Head(buffer) = feed[Consumed + 1]
             /\ (pc' = "format" \/ (pc' = pc /\ Consumed' = Consumed + 1))
        ELSE pc' \in Scanning => Consumed' = Consumed

\* C30: every list_messages call comes to its end; its loop takes the
\* messages of its iterator one after the other, each at most once, so it
\* makes at most as many passes as the iterator holds messages, and these are
\* at most the messages of the log.
C30_CallTerminates ==
    /\ []LoopWithinFeed
    /\ [][LoopConsumesOnce]_vars
    /\ (pc # "idle") ~> (pc = "done")

\* A search over the ten-message log with toDate on day 3 has skipped the two
\* matches newer than toDate, kept the third, and run its iterator dry.
C30_Witness ==
    /\ log = ScenarioLog
    /\ pc = "done"
    /\ HasSearch
    /\ to_date = <<1, 3>>
    /\ from_date = None
    /\ limit = 2
    /\ feed = <<9, 5, 2>>
    /\ pos = 3
    /\ exhausted
    /\ result.ids = <<2>>

====
